---------------------------- MODULE Spec2Model ----------------------------
(***************************************************************************)
(* A model of the Snaffler log consolidator (src/app.py): the line parser  *)
(* (parse_log_line, parse_file_metadata, extract_server), the streaming    *)
(* ingest generator of /parse-uploaded, the paginated /entries query, the  *)
(* streaming /export and /clear.                                           *)
(*                                                                         *)
(* Text is modelled as sequences of one-character strings, so that the     *)
(* regular expressions, split, join, strip and the CSV writer are computed *)
(* on characters as the code computes them.  The uploaded file is a        *)
(* sequence of bytes: a one-character string is an ASCII byte, InvalidByte *)
(* is a byte that is not valid UTF-8.                                      *)
(*                                                                         *)
(* The requests are taken one at a time, as section 5 of the specification *)
(* requires of the callers: while an ingest stream is being produced no    *)
(* other request is served.                                                *)
(***************************************************************************)
EXTENDS Integers, Sequences, FiniteSets, TLC

VARIABLES
    uploadExists,   \* os.path.exists(UPLOAD_FILE)
    uploadBytes,    \* the bytes of UPLOAD_FILE
    parsedExists,   \* os.path.exists(PARSED_FILE)
    store,          \* the lines of PARSED_FILE, one serialized entry each
    pc,             \* position of parse_uploaded_file.generate
    pending,        \* decoded lines of the open input handle not yet read
    gen,            \* the locals of generate()
    events,         \* the events the current ingest run has yielded
    resp,           \* the last response of a non-streaming request
    uploaded,       \* number of pieces uploaded so far, over all uploads
    fnIn,           \* argument of a parsing function applied on its own
    fnOut           \* its result

vars == <<uploadExists, uploadBytes, parsedExists, store, pc, pending, gen,
          events, resp, uploaded, fnIn, fnOut>>

-----------------------------------------------------------------------------
(* Bounds *)

MaxPieces == 2      \* pieces uploaded in one behaviour, over all its uploads
MaxPage == 2        \* largest page requested
MaxPerPage == 1     \* largest per_page requested
MaxMetaLen == 7     \* characters of a metadata string parsed on its own

-----------------------------------------------------------------------------
(* Characters and text *)

Digits == {"0", "1", "2", "3", "4", "5", "6", "7", "8", "9"}

Letters ==
    {"a", "b", "c", "d", "e", "f", "g", "h", "i", "j", "k", "l", "m", "n", "o",
     "p", "q", "r", "s", "t", "u", "v", "w", "x", "y", "z", "A", "B", "C", "D",
     "E", "F", "G", "H", "I", "J", "K", "L", "M", "N", "O", "P", "Q", "R", "S",
     "T", "U", "V", "W", "X", "Y", "Z"}

\* \w
WordChars == Letters \cup Digits \cup {"_"}

\* \s, and the characters str.strip() removes
SpaceChars == {" ", "\t", "\n", "\r"}

Punctuation ==
    {"[", "]", "{", "}", "<", ">", "(", ")", "|", "\\", "-", ":", ".", ",",
     "/", "\""}

AllChars == WordChars \cup SpaceChars \cup Punctuation

\* The characters in code point order, for sorted().
CodePointOrder ==
    <<"\t", "\n", "\r", " ", "\"", "(", ")", ",", "-", ".", "/",
      "0", "1", "2", "3", "4", "5", "6", "7", "8", "9", ":", "<", ">",
      "A", "B", "C", "D", "E", "F", "G", "H", "I", "J", "K", "L", "M", "N", "O",
      "P", "Q", "R", "S", "T", "U", "V", "W", "X", "Y", "Z", "[", "\\", "]", "_",
      "a", "b", "c", "d", "e", "f", "g", "h", "i", "j", "k", "l", "m", "n", "o",
      "p", "q", "r", "s", "t", "u", "v", "w", "x", "y", "z", "{", "|", "}">>

Ord(c) == CHOOSE i \in 1..Len(CodePointOrder) : CodePointOrder[i] = c

Range(s) == {s[i] : i \in 1..Len(s)}

SetMin(S) == CHOOSE x \in S : \A y \in S : x <= y

SetMax(S) == CHOOSE x \in S : \A y \in S : y <= x

\* s[i..], the slice s[i-1:] of Python
From(s, i) == SubSeq(s, i, Len(s))

\* The first index at or after i whose character is not in S (Len(s)+1 if
\* none): where a greedy run [S]* that starts at i ends.
Span(s, i, S) ==
    LET stops == {k \in i..Len(s) : s[k] \notin S}
    IN  IF stops = {} THEN Len(s) + 1 ELSE SetMin(stops)

\* The first index at or after i whose character is c (Len(s)+1 if none):
\* where a greedy run [^c]* that starts at i ends.
SpanNot(s, i, c) ==
    LET stops == {k \in i..Len(s) : s[k] = c}
    IN  IF stops = {} THEN Len(s) + 1 ELSE SetMin(stops)

\* sub in s
Contains(s, sub) ==
    \E i \in 1..(Len(s) - Len(sub) + 1) :
        s[i] = sub[1] /\ SubSeq(s, i, i + Len(sub) - 1) = sub

\* s.startswith(p)
StartsWith(s, p) == Len(s) >= Len(p) /\ SubSeq(s, 1, Len(p)) = p

\* The first index at or after i whose character is not white space
\* (Len(s)+1 if none).
RECURSIVE StripLeft(_, _)
StripLeft(s, i) ==
    IF i > Len(s) \/ s[i] \notin SpaceChars THEN i ELSE StripLeft(s, i + 1)

\* The last index at or before j whose character is not white space (0 if
\* none).
RECURSIVE StripRight(_, _)
StripRight(s, j) ==
    IF j < 1 \/ s[j] \notin SpaceChars THEN j ELSE StripRight(s, j - 1)

\* s.strip()
Strip(s) == SubSeq(s, StripLeft(s, 1), StripRight(s, Len(s)))

\* s.split(sep) for a one-character sep: the pieces between the separators,
\* one more than there are separators.
RECURSIVE Split(_, _)
Split(s, sep) ==
    LET at == {k \in 1..Len(s) : s[k] = sep}
    IN  IF at = {} THEN <<s>>
        ELSE LET k == SetMin(at)
             IN  <<SubSeq(s, 1, k - 1)>> \o Split(From(s, k + 1), sep)

\* sep.join(parts)
RECURSIVE Join(_, _)
Join(parts, sep) ==
    IF Len(parts) = 0 THEN <<>>
    ELSE IF Len(parts) = 1 THEN parts[1]
    ELSE parts[1] \o <<sep>> \o Join(Tail(parts), sep)

\* seqs[lo] \o ... \o seqs[hi], by halves
RECURSIVE ConcatRange(_, _, _)
ConcatRange(seqs, lo, hi) ==
    IF lo > hi THEN <<>>
    ELSE IF lo = hi THEN seqs[lo]
    ELSE LET mid == (lo + hi) \div 2
         IN  ConcatRange(seqs, lo, mid) \o ConcatRange(seqs, mid + 1, hi)

\* The concatenation of a sequence of sequences.
Flatten(seqs) == ConcatRange(seqs, 1, Len(seqs))

\* s < t in Python's string order
RECURSIVE StrLess(_, _)
StrLess(s, t) ==
    IF Len(t) = 0 THEN FALSE
    ELSE IF Len(s) = 0 THEN TRUE
    ELSE IF s[1] = t[1] THEN StrLess(Tail(s), Tail(t))
    ELSE Ord(s[1]) < Ord(t[1])

\* sorted(S) for a set of strings
RECURSIVE Sorted(_)
Sorted(S) ==
    IF S = {} THEN <<>>
    ELSE LET m == CHOOSE x \in S : \A y \in S \ {x} : StrLess(x, y)
         IN  <<m>> \o Sorted(S \ {m})

-----------------------------------------------------------------------------
(* The line parser *)

\* The value None of Optional[LogEntry].
NoEntry == [none |-> TRUE]

\* LogEntry(...): the dataclass, its fields in declaration order.
LogEntry(ts, kind, level, rule, rw, regex, size, modified, server, path, ctx) ==
    [timestamp |-> ts, log_entry_type |-> kind, triage_level |-> level,
     matched_rule_name |-> rule, read_write |-> rw, matched_regex |-> regex,
     file_size |-> size, file_last_modified |-> modified, server |-> server,
     full_file_path |-> path, match_context |-> ctx]

\* extract_server: the first segment of a path that starts with two backslashes.
extract_server(path) ==
    IF StartsWith(path, <<"\\", "\\">>)
    THEN Split(From(path, 3), "\\")[1]
    ELSE <<>>

\* A bugged parse_file_metadata: the pattern also takes the size token.
parse_file_metadata_wide(metadata) ==
    LET parts == Split(metadata, "|")
        n == Len(parts)
    IN  IF n >= 5
        THEN <<parts[1], parts[2], Join(SubSeq(parts, 3, n - 1), "|"),
               parts[n - 1], parts[n]>>
        ELSE IF n >= 2 THEN <<parts[1], parts[2], <<>>, <<>>, <<>>>>
        ELSE <<metadata, <<>>, <<>>, <<>>, <<>>>>

\* parse_file_metadata: (rule_name, read_write, pattern, file_size, file_datetime).
parse_file_metadata(metadata) ==
    LET parts == Split(metadata, "|")
        n == Len(parts)
    IN  IF n >= 5
        THEN <<parts[1], parts[2], Join(SubSeq(parts, 3, n - 2), "|"),
               parts[n - 1], parts[n]>>
        ELSE IF n >= 2 THEN <<parts[1], parts[2], <<>>, <<>>, <<>>>>
        ELSE <<metadata, <<>>, <<>>, <<>>, <<>>>>

\* Whether s[i..i+n-1] are n digits.
DigitsAt(s, i, n) == i + n - 1 <= Len(s) /\ \A k \in i..(i + n - 1) : s[k] \in Digits

\* Whether s[i] is the character c.
CharAt(s, i, c) == i <= Len(s) /\ s[i] = c

\* The prefix both patterns share:
\*   ^\[[^\]]+\]\s+(\d{4}-\d{2}-\d{2}\s+\d{2}:\d{2}:\d{2}Z?)\s+\[(\w+)\]\s+\{(\w+)\}
\* Every repetition is followed by a character outside its class, so the match
\* is the greedy one or none.  pos is the index after the closing brace.
MatchPrefix(s) ==
    LET hostEnd == SpanNot(s, 2, "]")      \* the ] after [^\]]+
        tsStart == Span(s, hostEnd + 1, SpaceChars)  \* after \s+
        timeStart == Span(s, tsStart + 10, SpaceChars)
        secEnd == timeStart + 8
        tsEnd == IF CharAt(s, secEnd, "Z") THEN secEnd + 1 ELSE secEnd
        kindOpen == Span(s, tsEnd, SpaceChars)
        kindEnd == Span(s, kindOpen + 1, WordChars)
        levelOpen == Span(s, kindEnd + 1, SpaceChars)
        levelEnd == Span(s, levelOpen + 1, WordChars)
        ok == /\ CharAt(s, 1, "[")
              /\ hostEnd > 2 /\ CharAt(s, hostEnd, "]")
              /\ tsStart > hostEnd + 1
              /\ DigitsAt(s, tsStart, 4) /\ CharAt(s, tsStart + 4, "-")
              /\ DigitsAt(s, tsStart + 5, 2) /\ CharAt(s, tsStart + 7, "-")
              /\ DigitsAt(s, tsStart + 8, 2)
              /\ timeStart > tsStart + 10
              /\ DigitsAt(s, timeStart, 2) /\ CharAt(s, timeStart + 2, ":")
              /\ DigitsAt(s, timeStart + 3, 2) /\ CharAt(s, timeStart + 5, ":")
              /\ DigitsAt(s, timeStart + 6, 2)
              /\ kindOpen > tsEnd /\ CharAt(s, kindOpen, "[")
              /\ kindEnd > kindOpen + 1 /\ CharAt(s, kindEnd, "]")
              /\ levelOpen > kindEnd + 1 /\ CharAt(s, levelOpen, "{")
              /\ levelEnd > levelOpen + 1 /\ CharAt(s, levelEnd, "}")
    IN  IF ok
        THEN [ok |-> TRUE,
              g1 |-> SubSeq(s, tsStart, tsEnd - 1),
              g2 |-> SubSeq(s, kindOpen + 1, kindEnd - 1),
              g3 |-> SubSeq(s, levelOpen + 1, levelEnd - 1),
              pos |-> levelEnd + 1]
        ELSE [ok |-> FALSE]

\* The tail \(([^)]+)\)\s*(.*)$ of both patterns, the parenthesis at index open.
TailOk(s, open) ==
    LET close == SpanNot(s, open + 1, ")")
    IN  CharAt(s, open, "(") /\ close > open + 1 /\ CharAt(s, close, ")")

TailGroups(s, open) ==
    LET close == SpanNot(s, open + 1, ")")
    IN  [inner |-> SubSeq(s, open + 1, close - 1),
         rest |-> From(s, Span(s, close + 1, SpaceChars))]

\* The groups of a match: the prefix p, the metadata or share path that ends
\* before index k, and the tail t.
Groups(s, p, k, t) ==
    [ok |-> TRUE, g1 |-> p.g1, g2 |-> p.g2, g3 |-> p.g3,
     g4 |-> SubSeq(s, p.pos + 1, k - 1), g5 |-> t.inner, g6 |-> t.rest]

\* The indices at which <(.+)>\( may end the metadata: a ">" after at least
\* one character, with the tail matching from the "(" that follows.
MetadataEnds(s, pos) ==
    {k \in (pos + 2)..Len(s) : CharAt(s, k, ">") /\ TailOk(s, k + 1)}

\* <(.+)>\(([^)]+)\)\s*(.*)$ after the prefix p.  (.+) is greedy: the metadata
\* ends at the last ">(" after which the tail still matches.
FileTail(s, p, ends) ==
    IF ~CharAt(s, p.pos, "<") \/ ends = {} THEN [ok |-> FALSE]
    ELSE Groups(s, p, SetMax(ends), TailGroups(s, SetMax(ends) + 1))

FileAfterPrefix(s, p) ==
    IF ~p.ok THEN [ok |-> FALSE] ELSE FileTail(s, p, MetadataEnds(s, p.pos))

\* FILE_PATTERN.match(s): groups 1..6, or ok = FALSE.
FILE_PATTERN(s) == FileAfterPrefix(s, MatchPrefix(s))

\* <([^>]+)>\(([^)]+)\)\s*(.*)$ after the prefix p: the share path ends at
\* the first ">", index k.
ShareTail(s, p, k) ==
    IF CharAt(s, p.pos, "<") /\ k > p.pos + 1 /\ CharAt(s, k, ">")
       /\ TailOk(s, k + 1)
    THEN Groups(s, p, k, TailGroups(s, k + 1))
    ELSE [ok |-> FALSE]

ShareAfterPrefix(s, p) ==
    IF ~p.ok THEN [ok |-> FALSE] ELSE ShareTail(s, p, SpanNot(s, p.pos + 1, ">"))

\* SHARE_PATTERN.match(s): groups 1..6, or ok = FALSE.
SHARE_PATTERN(s) == ShareAfterPrefix(s, MatchPrefix(s))

InfoMarker == <<"[", "I", "n", "f", "o", "]">>

ShareMarker == <<"[", "S", "h", "a", "r", "e", "]">>

FileMarker == <<"[", "F", "i", "l", "e", "]">>

skip_patterns ==
    {<<"S", "h", "a", "r", "e", "F", "i", "n", "d", "e", "r", " ", "T", "a", "s", "k", "s">>,
     <<"T", "r", "e", "e", "W", "a", "l", "k", "e", "r", " ", "T", "a", "s", "k", "s">>,
     <<"F", "i", "l", "e", "S", "c", "a", "n", "n", "e", "r", " ", "T", "a", "s", "k", "s">>,
     <<"R", "A", "M", " ", "i", "n", " ", "u", "s", "e">>,
     <<"I", "n", "s", "u", "f", "f", "i", "c", "i", "e", "n", "t">>,
     <<"M", "a", "x", " ", "S", "h", "a", "r", "e", "F", "i", "n", "d", "e", "r">>,
     <<"M", "a", "x", " ", "T", "r", "e", "e", "W", "a", "l", "k", "e", "r">>,
     <<"M", "a", "x", " ", "F", "i", "l", "e", "S", "c", "a", "n", "n", "e", "r">>,
     <<"B", "e", "e", "n", " ", "S", "n", "a", "f", "f", "l", "i", "n">>,
     <<"S", "t", "a", "t", "u", "s", " ", "U", "p", "d", "a", "t", "e">>}

\* Lines 129-143: the entry of a line under the Share pattern, m its match.
ShareEntry(m) ==
    IF m.ok
    THEN LogEntry(m.g1, m.g2, m.g3, <<>>, m.g5, <<>>, <<>>, <<>>,
                  extract_server(m.g4), m.g4, Strip(m.g6))
    ELSE NoEntry

\* Lines 154-166: the entry of a File match m with its metadata fields md.
FileFields(m, md) ==
    LogEntry(m.g1, m.g2, m.g3, md[1], md[2], md[3], md[4], md[5],
             extract_server(m.g5), m.g5, Strip(m.g6))

\* Lines 148-166: the entry of a line under the File pattern, m its match.
FileEntry(m) ==
    IF m.ok THEN FileFields(m, parse_file_metadata(m.g4)) ELSE NoEntry

\* A bugged parse_log_line: the status tests are made only for the lines
\* that hold no kind marker.
ParseStrippedMarkerFirst(line) ==
    IF line = <<>> THEN NoEntry
    ELSE IF Contains(line, ShareMarker) THEN ShareEntry(SHARE_PATTERN(line))
    ELSE IF Contains(line, FileMarker) THEN FileEntry(FILE_PATTERN(line))
    ELSE NoEntry

\* A bugged parse_log_line: the File marker is looked for before the Share
\* marker.
ParseStrippedFileFirst(line) ==
    IF line = <<>> THEN NoEntry
    ELSE IF Contains(line, InfoMarker) THEN NoEntry
    ELSE IF \E p \in skip_patterns : Contains(line, p) THEN NoEntry
    ELSE IF Contains(line, FileMarker) THEN FileEntry(FILE_PATTERN(line))
    ELSE IF Contains(line, ShareMarker) THEN ShareEntry(SHARE_PATTERN(line))
    ELSE NoEntry

\* Lines 101-168 on the stripped line.
ParseStripped(line) ==
    IF line = <<>> THEN NoEntry
    ELSE IF Contains(line, InfoMarker) THEN NoEntry
    ELSE IF \E p \in skip_patterns : Contains(line, p) THEN NoEntry
    ELSE IF Contains(line, ShareMarker) THEN ShareEntry(SHARE_PATTERN(line))
    ELSE IF Contains(line, FileMarker) THEN FileEntry(FILE_PATTERN(line))
    ELSE NoEntry

\* parse_log_line: a LogEntry or NoEntry.
parse_log_line(raw) == ParseStripped(Strip(raw))

-----------------------------------------------------------------------------
(* Reading the uploaded file: open(UPLOAD_FILE, 'r', encoding='utf-8',     *)
(* errors='ignore') and iteration over its lines                           *)

\* The two bytes of the UTF-8 encoding of U+00E9, and the character itself.
\* Either byte without the other is not valid UTF-8.
ByteC3 == "xC3"

ByteA9 == "xA9"

EAcute == "U+00E9"

\* bytes.decode('utf-8', errors='ignore'): invalid bytes are dropped.
\* ByteC3 followed by ByteA9 is U+00E9; any other ByteC3 or ByteA9 is dropped.
decode_utf8(bytes) ==
    LET kept == SelectSeq([i \in 1..Len(bytes) |-> i],
                          LAMBDA i :
                            IF bytes[i] = ByteC3
                            THEN i < Len(bytes) /\ bytes[i + 1] = ByteA9
                            ELSE bytes[i] # ByteA9)
    IN  [k \in 1..Len(kept) |->
            IF bytes[kept[k]] = ByteC3 THEN EAcute ELSE bytes[kept[k]]]

\* str.encode('utf-8', errors='ignore')
encode_utf8(text) ==
    Flatten([i \in 1..Len(text) |->
        IF text[i] = EAcute THEN <<ByteC3, ByteA9>> ELSE <<text[i]>>])

\* Universal newlines (newline=None): "\r\n" and "\r" are read as "\n".
translate_newlines(text) ==
    LET kept == SelectSeq([i \in 1..Len(text) |-> i],
                          LAMBDA i :
                            ~(text[i] = "\n" /\ i > 1 /\ text[i - 1] = "\r"))
    IN  [k \in 1..Len(kept) |->
            IF text[kept[k]] = "\r" THEN "\n" ELSE text[kept[k]]]

\* The lines "for line in f" yields: each keeps its "\n"; the last may have none.
RECURSIVE split_lines(_)
split_lines(text) ==
    IF Len(text) = 0 THEN <<>>
    ELSE LET k == SpanNot(text, 1, "\n")
         IN  IF k > Len(text) THEN <<text>>
             ELSE <<SubSeq(text, 1, k)>> \o split_lines(From(text, k + 1))

read_lines(bytes) == split_lines(translate_newlines(decode_utf8(bytes)))

-----------------------------------------------------------------------------
(* The intermediate store: json.dumps(asdict(entry)) per line, json.loads  *)
(* to read it back                                                         *)

FieldOrder ==
    <<"timestamp", "log_entry_type", "triage_level", "matched_rule_name",
      "read_write", "matched_regex", "file_size", "file_last_modified",
      "server", "full_file_path", "match_context">>

\* json.dumps(asdict(entry)): the (key, value) pairs in field order.
json_dumps(entry) == [i \in 1..Len(FieldOrder) |-> <<FieldOrder[i], entry[FieldOrder[i]]>>]

\* json.loads(line): the dict of the pairs.
json_loads(line) ==
    [k \in {line[i][1] : i \in 1..Len(line)} |->
        line[CHOOSE i \in 1..Len(line) : line[i][1] = k][2]]

-----------------------------------------------------------------------------
(* parse_uploaded_file and its generator *)

\* The locals of generate() after lines 204-210.
GenLocals(size) ==
    [triage_counts |-> <<>>, total_entries |-> 0, last_progress |-> -1,
     lines_processed |-> 0, file_size |-> size, bytes_read |-> 0]

\* triage_counts[level] = triage_counts.get(level, 0) + 1
CountLevel(counts, level) ==
    IF level \in DOMAIN counts
    THEN [counts EXCEPT ![level] = @ + 1]
    ELSE [l \in DOMAIN counts \cup {level} |->
            IF l = level THEN 1 ELSE counts[l]]

\* int((bytes_read / file_size) * 100), for file_size > 0.  The quotient is
\* taken exactly; the float product can be one less than this value, and is
\* 100 exactly when bytes_read = file_size.
Progress(bytes_read, size) == (bytes_read * 100) \div size

ProgressEvent(g) ==
    [type |-> "progress", progress |-> g.last_progress,
     entries |-> g.total_entries, lines |-> g.lines_processed]

DoneEvent(g) ==
    [type |-> "done", total_entries |-> g.total_entries,
     triage_levels |-> Sorted(DOMAIN g.triage_counts),
     triage_counts |-> g.triage_counts]

ErrorEvent == [type |-> "error"]

\* No request is being served while the stream of an ingest is produced.
Busy == pc \in {"started", "reading"}

Response(op, args, status, body) ==
    [op |-> op, args |-> args, status |-> status, body |-> body]

NoArgs == <<>>

\* The response that carries the status and body of r.
Answer(op, args, r) == Response(op, args, r.status, r.body)

\* Lines 200-212: the check for the upload, then the start of generate().
ParseStart ==
    /\ ~Busy
    /\ IF ~uploadExists
       THEN /\ resp' = Response("parse", NoArgs, 400,
                            "No file uploaded. Please upload a file first.")
            /\ UNCHANGED <<pc, gen, events, pending>>
       ELSE /\ pc' = "started"
            /\ gen' = GenLocals(Len(uploadBytes))
            /\ events' = <<>>
            /\ pending' = <<>>
            /\ resp' = Response("parse", NoArgs, 200, "stream")
    /\ UNCHANGED <<uploadExists, uploadBytes, parsedExists, store, uploaded,
                   fnIn, fnOut>>

\* A bugged open: PARSED_FILE is opened for appending.
IngestOpenAppends ==
    /\ pc = "started"
    /\ pc' = "reading"
    /\ parsedExists' = TRUE
    /\ pending' = read_lines(uploadBytes)
    /\ UNCHANGED <<uploadExists, uploadBytes, store, gen, events, resp,
                   uploaded, fnIn, fnOut>>

\* Lines 215-216: PARSED_FILE is opened for writing, which truncates it, and
\* UPLOAD_FILE for reading.
IngestOpen ==
    /\ pc = "started"
    /\ pc' = "reading"
    /\ parsedExists' = TRUE
    /\ store' = <<>>
    /\ pending' = read_lines(uploadBytes)
    /\ UNCHANGED <<uploadExists, uploadBytes, gen, events, resp, uploaded,
                   fnIn, fnOut>>

\* A bugged loop body: total_entries is incremented for every line.
AfterLineCountsAll(g, line, entry) ==
    [g EXCEPT
        !.lines_processed = @ + 1,
        !.bytes_read = @ + Len(encode_utf8(line)),
        !.total_entries = @ + 1,
        !.triage_counts =
            IF entry # NoEntry THEN CountLevel(@, entry.triage_level) ELSE @]

\* The locals after lines 218-225 of the loop body on `line`, entry being
\* parse_log_line(line).
AfterLine(g, line, entry) ==
    [g EXCEPT
        !.lines_processed = @ + 1,
        !.bytes_read = @ + Len(encode_utf8(line)),
        !.total_entries = IF entry # NoEntry THEN @ + 1 ELSE @,
        !.triage_counts =
            IF entry # NoEntry THEN CountLevel(@, entry.triage_level) ELSE @]

\* A bugged report: an event also when the percentage has not grown.
ReportRepeats(g, progress) ==
    IF g.file_size = 0
    THEN /\ pc' = "error"
         /\ gen' = g
         /\ events' = Append(events, ErrorEvent)
    ELSE /\ pc' = pc
         /\ gen' = IF progress >= g.last_progress
                   THEN [g EXCEPT !.last_progress = progress]
                   ELSE g
         /\ events' = IF progress >= g.last_progress
                      THEN Append(events,
                                  ProgressEvent([g EXCEPT !.last_progress = progress]))
                      ELSE events

\* Lines 228-231 with the locals g: the progress event, if the integer
\* percentage has grown.  A division by a file_size of 0 is caught at line
\* 244.
Report(g, progress) ==
    IF g.file_size = 0
    THEN /\ pc' = "error"
         /\ gen' = g
         /\ events' = Append(events, ErrorEvent)
    ELSE /\ pc' = pc
         /\ gen' = IF progress > g.last_progress
                   THEN [g EXCEPT !.last_progress = progress]
                   ELSE g
         /\ events' = IF progress > g.last_progress
                      THEN Append(events,
                                  ProgressEvent([g EXCEPT !.last_progress = progress]))
                      ELSE events

\* Lines 221-231 for an entry and the locals g after it.
Written(entry, g) ==
    /\ store' = IF entry # NoEntry THEN Append(store, json_dumps(entry)) ELSE store
    /\ Report(g, IF g.file_size = 0 THEN 0 ELSE Progress(g.bytes_read, g.file_size))

ReadLine(line, entry) == Written(entry, AfterLine(gen, line, entry))

\* A bugged loop: the clean-up of line 235 is done after the first line.
IngestLineCleansUp ==
    /\ pc = "reading"
    /\ pending # <<>>
    /\ pending' = Tail(pending)
    /\ ReadLine(Head(pending), parse_log_line(Head(pending)))
    /\ uploadExists' = FALSE
    /\ uploadBytes' = <<>>
    /\ UNCHANGED <<parsedExists, resp, uploaded, fnIn, fnOut>>

\* Lines 217-231: one line of the input.
IngestLine ==
    /\ pc = "reading"
    /\ pending # <<>>
    /\ pending' = Tail(pending)
    /\ ReadLine(Head(pending), parse_log_line(Head(pending)))
    /\ UNCHANGED <<uploadExists, uploadBytes, parsedExists, resp, uploaded,
                   fnIn, fnOut>>

\* Lines 232-242: the input is exhausted; UPLOAD_FILE is removed, a failure
\* of the removal being passed over (lines 236-237), and the final result is
\* yielded.
IngestFinish ==
    /\ pc = "reading"
    /\ pending = <<>>
    /\ pc' = "done"
    /\ \E removed \in BOOLEAN :
        IF removed
        THEN uploadExists' = FALSE /\ uploadBytes' = <<>>
        ELSE UNCHANGED <<uploadExists, uploadBytes>>
    /\ events' = Append(events, DoneEvent(gen))
    /\ UNCHANGED <<parsedExists, store, pending, gen, resp, uploaded, fnIn,
                   fnOut>>

\* A bugged handler: the error event is yielded and the run goes on.
IngestFailGoesOn ==
    /\ pc = "reading"
    /\ pc' = pc
    /\ events' = Append(events, ErrorEvent)
    /\ UNCHANGED <<uploadExists, uploadBytes, parsedExists, store, pending,
                   gen, resp, uploaded, fnIn, fnOut>>

\* Lines 244-248: an exception of the environment (a failed open, read or
\* write) ends the run with an error event; what was written stays.
IngestFail ==
    /\ Busy
    /\ pc' = "error"
    /\ events' = Append(events, ErrorEvent)
    /\ pending' = <<>>
    /\ UNCHANGED <<uploadExists, uploadBytes, parsedExists, store, gen, resp,
                   uploaded, fnIn, fnOut>>

-----------------------------------------------------------------------------
(* /entries *)

\* The limit of line 283 and the length kept by line 284.
ContextLimit == 200

Ellipsis == <<".", ".", ".">>

\* A bugged cut: the ellipsis is left out.
TruncatedBare(entry) ==
    IF Len(entry.match_context) > ContextLimit
    THEN [entry EXCEPT !.match_context = SubSeq(@, 1, ContextLimit)]
    ELSE entry

\* Lines 283-284: match_context cut for display.
Truncated(entry) ==
    IF Len(entry.match_context) > ContextLimit
    THEN [entry EXCEPT
            !.match_context = SubSeq(@, 1, ContextLimit) \o Ellipsis]
    ELSE entry

\* triage_filter and entry['triage_level'] not in triage_filter
FilteredOut(entry, triage_filter) ==
    triage_filter # {} /\ entry.triage_level \notin triage_filter

\* Whether line 281 takes the entry: total_filtered > skip and
\* len(entries) < per_page.
Taken(total_filtered, skip, taken, per_page) ==
    total_filtered > skip /\ taken < per_page

\* The loop of lines 271-285 from line i of the store on: the pair
\* (entries, total_filtered) when the file is exhausted.
RECURSIVE ScanEntries(_, _, _, _, _, _, _)
ScanEntries(lines, i, skip, per_page, triage_filter, entries, total_filtered) ==
    IF i > Len(lines) THEN <<entries, total_filtered>>
    ELSE LET entry == json_loads(lines[i])
         IN  IF FilteredOut(entry, triage_filter)
             THEN ScanEntries(lines, i + 1, skip, per_page, triage_filter,
                              entries, total_filtered)
             ELSE ScanEntries(lines, i + 1, skip, per_page, triage_filter,
                              IF Taken(total_filtered + 1, skip, Len(entries), per_page)
                              THEN Append(entries, Truncated(entry))
                              ELSE entries,
                              total_filtered + 1)

\* a // b of Python, for b # 0: the floor of the quotient.
FloorDiv(a, b) == IF b > 0 THEN a \div b ELSE (-a) \div (-b)

\* A bugged offset: the pages are counted from 0.
SkipFromZero(page, per_page) == page * per_page

\* (page - 1) * per_page, line 268
Skip(page, per_page) == (page - 1) * per_page

\* A bugged response: total_pages is rounded down.
JsonifyRoundsDown(entries, page, per_page, total) ==
    IF total > 0 /\ per_page = 0
    THEN [status |-> 500, body |-> "ZeroDivisionError"]
    ELSE [status |-> 200,
          body |-> [entries |-> entries, page |-> page,
                    per_page |-> per_page, total |-> total,
                    total_pages |->
                        IF total > 0 THEN FloorDiv(total, per_page) ELSE 1]]

\* get_entries on an existing store: the response of lines 259-293.  The
\* division of line 292 by a per_page of 0 raises, which the framework
\* answers with status 500.
Jsonify(entries, page, per_page, total) ==
    IF total > 0 /\ per_page = 0
    THEN [status |-> 500, body |-> "ZeroDivisionError"]
    ELSE [status |-> 200,
          body |-> [entries |-> entries, page |-> page,
                    per_page |-> per_page, total |-> total,
                    total_pages |->
                        IF total > 0
                        THEN FloorDiv(total + per_page - 1, per_page)
                        ELSE 1]]

Scanned(scan, page, per_page) == Jsonify(scan[1], page, per_page, scan[2])

get_entries(lines, page, per_page, triage_filter) ==
    Scanned(ScanEntries(lines, 1, Skip(page, per_page), per_page,
                        triage_filter, <<>>, 0),
            page, per_page)

-----------------------------------------------------------------------------
(* /export *)

HeaderColumns ==
    <<<<"T", "i", "m", "e", "s", "t", "a", "m", "p">>,
      <<"L", "o", "g", " ", "E", "n", "t", "r", "y", " ", "T", "y", "p", "e">>,
      <<"T", "r", "i", "a", "g", "e", " ", "L", "e", "v", "e", "l">>,
      <<"M", "a", "t", "c", "h", "e", "d", " ", "R", "u", "l", "e", " ", "N", "a", "m", "e">>,
      <<"R", "/", "R", "W">>,
      <<"F", "i", "l", "e", " ", "S", "i", "z", "e">>,
      <<"F", "i", "l", "e", " ", "L", "a", "s", "t", " ", "M", "o", "d", "i", "f", "i", "e", "d">>,
      <<"S", "e", "r", "v", "e", "r">>,
      <<"F", "u", "l", "l", " ", "F", "i", "l", "e", " ", "P", "a", "t", "h">>,
      <<"M", "a", "t", "c", "h", " ", "C", "o", "n", "t", "e", "x", "t">>>>

\* The ten columns of lines 334-345 (matched_regex is not exported).
RowColumns(entry) ==
    <<entry.timestamp, entry.log_entry_type, entry.triage_level,
      entry.matched_rule_name, entry.read_write, entry.file_size,
      entry.file_last_modified, entry.server, entry.full_file_path,
      entry.match_context>>

\* csv.writer, the excel dialect: a field holding the delimiter, the quote
\* character or a line break is quoted, its quotes doubled.
DoubleQuotes(field) ==
    Flatten([i \in 1..Len(field) |->
        IF field[i] = "\"" THEN <<"\"", "\"">> ELSE <<field[i]>>])

CsvField(field) ==
    IF \E i \in 1..Len(field) : field[i] \in {",", "\"", "\r", "\n"}
    THEN <<"\"">> \o DoubleQuotes(field) \o <<"\"">>
    ELSE field

RECURSIVE CsvFields(_)
CsvFields(columns) ==
    IF Len(columns) = 0 THEN <<>>
    ELSE IF Len(columns) = 1 THEN CsvField(columns[1])
    ELSE CsvField(columns[1]) \o <<",">> \o CsvFields(Tail(columns))

\* writer.writerow(columns); output.getvalue()
CsvRow(columns) == CsvFields(columns) \o <<"\r", "\n">>

\* Bugged data rows: the triage filter is not applied.
RECURSIVE ExportRowsUnfiltered(_, _, _)
ExportRowsUnfiltered(lines, i, triage_filter) ==
    IF i > Len(lines) THEN <<>>
    ELSE <<CsvRow(RowColumns(json_loads(lines[i])))>>
         \o ExportRowsUnfiltered(lines, i + 1, triage_filter)

\* The data rows of lines 324-346 from line i of the store on.
RECURSIVE ExportRows(_, _, _)
ExportRows(lines, i, triage_filter) ==
    IF i > Len(lines) THEN <<>>
    ELSE LET entry == json_loads(lines[i])
         IN  IF FilteredOut(entry, triage_filter)
             THEN ExportRows(lines, i + 1, triage_filter)
             ELSE <<CsvRow(RowColumns(entry))>>
                  \o ExportRows(lines, i + 1, triage_filter)

\* The chunks export_csv.generate yields: the header, then the rows.
export_csv(lines, triage_filter) ==
    <<CsvRow(HeaderColumns)>> \o ExportRows(lines, 1, triage_filter)

-----------------------------------------------------------------------------
(* The inputs of the model *)

Red == <<"R", "e", "d">>

Green == <<"G", "r", "e", "e", "n">>

\* The values of the triage parameter of /entries and /export.
Filters == {{}, {Red}}

HostToken == <<"[", "H", "]", " ">>

Stamp == <<"2", "0", "2", "4", "-", "0", "1", "-", "1", "5", " ",
           "1", "0", ":", "3", "0", ":", "0", "0">>

StampZ == Stamp \o <<"Z">>

FileKind == <<" ", "[", "F", "i", "l", "e", "]", " ">>

ShareKind == <<" ", "[", "S", "h", "a", "r", "e", "]", " ">>

\* <R|RW|a|b|9|d>(\\S\f) x : a File body whose pattern holds a "|"
FileBody ==
    <<"<", "R", "|", "R", "W", "|", "a", "|", "b", "|", "9", "|", "d", ">",
      "(", "\\", "\\", "S", "\\", "f", ")", " ", "x">>

\* <\\S\s>(R) d : a Share body
ShareBody == <<"<", "\\", "\\", "S", "\\", "s", ">", "(", "R", ")", " ", "d">>

\* <R|RW>(p) followed by a space: a File body with two metadata tokens
ShortBody == <<"<", "R", "|", "R", "W", ">", "(", "p", ")", " ">>

\* A context longer than ContextLimit.
LongContext == [i \in 1..(ContextLimit + 1) |-> "c"]

\* An informational line that holds a File marker and is of the File
\* grammar: [H] 2024-01-15 10:30:00Z [Info] {Red}<R|RW>(p) [File]
InfoLine ==
    HostToken \o StampZ \o <<" ", "[", "I", "n", "f", "o", "]", " ">>
        \o <<"{", "R", "e", "d", "}">>
        \o <<"<", "R", "|", "R", "W", ">", "(", "p", ")", " ">> \o FileMarker

\* The pieces an uploaded file is made of, as bytes with their line ends:
\* a File line followed by an informational line; a Share line with a long
\* description, ended by "\r\n"; and a status banner, two empty lines and a
\* line that holds a File record, U+00E9, a status text and a byte that is
\* not valid UTF-8.
RawPieces ==
    {HostToken \o StampZ \o FileKind \o <<"{", "R", "e", "d", "}">> \o FileBody
        \o <<"\n">> \o InfoLine \o <<"\n">>,
     HostToken \o StampZ \o ShareKind \o <<"{", "G", "r", "e", "e", "n", "}">>
        \o ShareBody \o LongContext \o <<"\r", "\n">>,
     <<"\n", "\n">> \o HostToken \o StampZ \o FileKind
        \o <<"{", "R", "e", "d", "}">> \o FileBody
        \o <<" ", ByteC3, ByteA9, " ", "R", "A", "M", " ", "i", "n", " ", "u",
             "s", "e", ByteA9, "\n">>}

\* The sequences of at most n elements of S.
RECURSIVE SeqsUpTo(_, _)
SeqsUpTo(S, n) ==
    IF n = 0 THEN {<<>>}
    ELSE LET shorter == SeqsUpTo(S, n - 1)
         IN  shorter \cup {Append(q, x) : q \in shorter, x \in S}

-----------------------------------------------------------------------------
(* The requests other than the ingest stream *)

\* file.save(UPLOAD_FILE) and the response of lines 187-194.
Saved(file) ==
    /\ uploadExists' = TRUE
    /\ uploadBytes' = file
    /\ resp' = Response("upload", NoArgs, 200, [success |-> TRUE, size |-> Len(file)])

\* upload_file, lines 184-194: a file made of `pieces` is saved over
\* UPLOAD_FILE.
Upload(pieces) ==
    /\ ~Busy
    /\ uploaded + Len(pieces) <= MaxPieces
    /\ uploaded' = uploaded + Len(pieces)
    /\ Saved(Flatten(pieces))
    /\ UNCHANGED <<parsedExists, store, pc, pending, gen, events, fnIn, fnOut>>

\* upload_file, lines 177-182: a request without a file.
UploadRejected ==
    /\ ~Busy
    /\ resp' = Response("upload", NoArgs, 400, "No file provided")
    /\ UNCHANGED <<uploadExists, uploadBytes, parsedExists, store, pc, pending,
                   gen, events, uploaded, fnIn, fnOut>>

QueryArgs(page, per_page, triage_filter) ==
    [page |-> page, per_page |-> per_page, triage |-> triage_filter]

\* A bugged get_entries: the store is read without the check of line 256.
QueryUnchecked(page, per_page, triage_filter) ==
    /\ ~Busy
    /\ resp' = Answer("query", QueryArgs(page, per_page, triage_filter),
                      get_entries(store, page, per_page, triage_filter))
    /\ UNCHANGED <<uploadExists, uploadBytes, parsedExists, store, pc, pending,
                   gen, events, uploaded, fnIn, fnOut>>

\* get_entries, lines 256-293.
Query(page, per_page, triage_filter) ==
    /\ ~Busy
    /\ IF ~parsedExists
       THEN resp' = Response("query", QueryArgs(page, per_page, triage_filter),
                             400, "No data loaded. Please parse a log file first.")
       ELSE resp' = Answer("query", QueryArgs(page, per_page, triage_filter),
                           get_entries(store, page, per_page, triage_filter))
    /\ UNCHANGED <<uploadExists, uploadBytes, parsedExists, store, pc, pending,
                   gen, events, uploaded, fnIn, fnOut>>

\* export_csv, lines 299-354: the whole stream is consumed.
Export(triage_filter) ==
    /\ ~Busy
    /\ IF ~parsedExists
       THEN resp' = Response("export", [triage |-> triage_filter], 400,
                             "No data loaded")
       ELSE resp' = Response("export", [triage |-> triage_filter], 200,
                             export_csv(store, triage_filter))
    /\ UNCHANGED <<uploadExists, uploadBytes, parsedExists, store, pc, pending,
                   gen, events, uploaded, fnIn, fnOut>>

\* The number of lines debug_sample reads, line 366.
SampleLimit == 50

\* The length to which debug_sample cuts a line, line 375.
RawLimit == 300

\* Lines 373-378: the result for line number n, stripped, and its entry.
SampleResult(n, stripped, entry) ==
    [line_num |-> n,
     raw |-> IF Len(stripped) > RawLimit
             THEN SubSeq(stripped, 1, RawLimit) \o Ellipsis
             ELSE stripped,
     parsed |-> entry,
     matched |-> entry # NoEntry]

\* Lines 368-378 for the stripped line number n.
SampleLine(n, stripped) == SampleResult(n, stripped, parse_log_line(stripped))

\* Lines 363-378: the results for the first SampleLimit lines, the empty
\* ones left out.
SampleResults(lines) ==
    LET shown == SelectSeq([i \in 1..Len(lines) |-> i],
                           LAMBDA i : i <= SampleLimit /\ Strip(lines[i]) # <<>>)
    IN  [k \in 1..Len(shown) |-> SampleLine(shown[k], Strip(lines[shown[k]]))]

\* Lines 380-385: the response for the results.
SampleSummary(results) ==
    [total_lines |-> Len(results),
     matched |-> Cardinality({k \in 1..Len(results) : results[k].matched}),
     results |-> results]

\* debug_sample, lines 360-385.
DebugSample ==
    /\ ~Busy
    /\ IF ~uploadExists
       THEN resp' = Response("debug", NoArgs, 400, "No file uploaded")
       ELSE resp' = Response("debug", NoArgs, 200,
                             SampleSummary(SampleResults(read_lines(uploadBytes))))
    /\ UNCHANGED <<uploadExists, uploadBytes, parsedExists, store, pc, pending,
                   gen, events, uploaded, fnIn, fnOut>>

\* A bugged clear_data: only PARSED_FILE is removed.
ClearKeepsUpload ==
    /\ ~Busy
    /\ parsedExists' = FALSE
    /\ store' = <<>>
    /\ resp' = Response("clear", NoArgs, 200, [success |-> TRUE])
    /\ UNCHANGED <<uploadExists, uploadBytes, pc, pending, gen, events,
                   uploaded, fnIn, fnOut>>

\* clear_data, lines 390-395: both files are removed if they exist.
Clear ==
    /\ ~Busy
    /\ parsedExists' = FALSE
    /\ store' = <<>>
    /\ uploadExists' = FALSE
    /\ uploadBytes' = <<>>
    /\ resp' = Response("clear", NoArgs, 200, [success |-> TRUE])
    /\ UNCHANGED <<pc, pending, gen, events, uploaded, fnIn, fnOut>>

-----------------------------------------------------------------------------
(* The specification of the application *)

NoResponse == Response("none", NoArgs, 0, "none")

NoInput == [fn |-> "none"]

NoOutput == [set |-> FALSE]

Output(value) == [set |-> TRUE, value |-> value]

AppInit ==
    /\ uploadExists = FALSE
    /\ uploadBytes = <<>>
    /\ parsedExists = FALSE
    /\ store = <<>>
    /\ pc = "idle"
    /\ pending = <<>>
    /\ gen = GenLocals(0)
    /\ events = <<>>
    /\ resp = NoResponse
    /\ uploaded = 0

Init == AppInit /\ fnIn = NoInput /\ fnOut = NoOutput

Next ==
    \/ \E pieces \in SeqsUpTo(RawPieces, MaxPieces) : Upload(pieces)
    \/ UploadRejected
    \/ ParseStart
    \/ IngestOpen
    \/ IngestLine
    \/ IngestFinish
    \/ IngestFail
    \/ \E page \in 0..MaxPage, per_page \in (-1)..MaxPerPage,
          triage_filter \in Filters : Query(page, per_page, triage_filter)
    \/ \E triage_filter \in Filters : Export(triage_filter)
    \/ DebugSample
    \/ Clear

Spec == Init /\ [][Next]_vars

-----------------------------------------------------------------------------
(* The parsing functions applied on their own *)

DirKind == <<" ", "[", "D", "i", "r", "]", " ">>

InfoKind == <<" ", "[", "I", "n", "f", "o", "]", " ">>

\* A date and a time joined by "T", which the patterns do not accept.
StampT == [Stamp EXCEPT ![11] = "T"]

\* <R>(p : a body cut before its closing parenthesis
CutBody == <<"<", "R", ">", "(", "p">>

\* The lines parse_log_line is applied to: a host, a timestamp, a bracketed
\* kind, a braced level, a body and a trailing text.
LineInputs ==
    {HostToken \o stamp \o kind \o level \o body \o trail :
        stamp \in {StampZ, Stamp, StampT},
        kind \in {FileKind, ShareKind, DirKind, InfoKind},
        level \in {<<"{", "R", "e", "d", "}">>, <<"{", "G", "r", "e", "e", "n", "}">>},
        body \in {FileBody, ShareBody, ShortBody, CutBody},
        trail \in {<<>>, <<" ">> \o ShareMarker, <<" ">> \o FileMarker,
                   <<" ", "R", "A", "M", " ", "i", "n", " ", "u", "s", "e">>}}

\* The metadata strings parse_file_metadata is applied to.
MetaInputs == SeqsUpTo({"a", "b", "|"}, MaxMetaLen)

ParseInit ==
    /\ AppInit
    /\ fnIn \in [fn : {"line"}, arg : LineInputs] \cup [fn : {"meta"}, arg : MetaInputs]
    /\ fnOut = NoOutput

ApplyLine ==
    /\ fnIn.fn = "line"
    /\ ~fnOut.set
    /\ fnOut' = Output(parse_log_line(fnIn.arg))
    /\ UNCHANGED <<uploadExists, uploadBytes, parsedExists, store, pc, pending,
                   gen, events, resp, uploaded, fnIn>>

ApplyMeta ==
    /\ fnIn.fn = "meta"
    /\ ~fnOut.set
    /\ fnOut' = Output(parse_file_metadata(fnIn.arg))
    /\ UNCHANGED <<uploadExists, uploadBytes, parsedExists, store, pc, pending,
                   gen, events, resp, uploaded, fnIn>>

ParseNext == ApplyLine \/ ApplyMeta

SpecParse == ParseInit /\ [][ParseNext]_vars

-----------------------------------------------------------------------------
(* Claims *)

\* C10: for every metadata string of at least 5 "|"-separated tokens,
\* parse_file_metadata yields the first two tokens, the middle tokens rejoined
\* with "|", and the last two tokens, so that joining the five fields with
\* "|" gives the metadata string back; and the five metadata fields of an
\* entry extracted from a File line rejoin to the metadata the pattern
\* captured.
MetadataRoundTrip ==
    /\ (fnIn.fn = "meta" /\ fnOut.set /\ Len(Split(fnIn.arg, "|")) >= 5) =>
        LET parts == Split(fnIn.arg, "|")
            n == Len(parts)
            fields == fnOut.value
        IN  /\ fields[1] = parts[1]
            /\ fields[2] = parts[2]
            /\ fields[3] = Join(SubSeq(parts, 3, n - 2), "|")
            /\ fields[4] = parts[n - 1]
            /\ fields[5] = parts[n]
            /\ Join(fields, "|") = fnIn.arg
    /\ (/\ fnIn.fn = "line" /\ fnOut.set /\ fnOut.value # NoEntry
        /\ ~Contains(Strip(fnIn.arg), ShareMarker)
        /\ Len(Split(FILE_PATTERN(Strip(fnIn.arg)).g4, "|")) >= 5) =>
        LET e == fnOut.value
        IN  Join(<<e.matched_rule_name, e.read_write, e.matched_regex,
                   e.file_size, e.file_last_modified>>, "|")
            = FILE_PATTERN(Strip(fnIn.arg)).g4

\* C10 witness: a metadata string of six tokens has been parsed, its pattern
\* holding a "|".
MetadataRoundTripWitness ==
    /\ fnIn.fn = "meta"
    /\ fnOut.set
    /\ Len(Split(fnIn.arg, "|")) = 6
    /\ fnOut.value[3] = <<"a", "|", "b">>

\* C2: every entry parse_log_line extracts has log_entry_type "File" or
\* "Share".
EntryKindKnown ==
    (fnIn.fn = "line" /\ fnOut.set /\ fnOut.value # NoEntry) =>
        fnOut.value.log_entry_type \in
            {<<"F", "i", "l", "e">>, <<"S", "h", "a", "r", "e">>}

\* The progress values the current run has emitted, in order.
ProgressValues ==
    LET idx == SelectSeq([i \in 1..Len(events) |-> i],
                         LAMBDA i : events[i].type = "progress")
    IN  [k \in 1..Len(idx) |-> events[idx[k]].progress]

\* The indices of the final events (done, error) of the current run.
FinalEvents == {i \in 1..Len(events) : events[i].type \in {"done", "error"}}

\* C3: when an ingest run ends with the done event, the last progress value
\* emitted before it is 100.
FinalProgressIs100 ==
    pc = "done" =>
        /\ ProgressValues # <<>>
        /\ ProgressValues[Len(ProgressValues)] = 100

\* C4: a progress event is emitted only when the integer percentage of the
\* bytes consumed exceeds the last emitted value, and carries that
\* percentage; the emitted values are strictly increasing, lie in 0..100 and
\* are at most 101.
ProgressOnlyWhenIncreased ==
    /\ [](/\ \A i, j \in 1..Len(ProgressValues) :
                i < j => ProgressValues[i] < ProgressValues[j]
          /\ \A i \in 1..Len(ProgressValues) : ProgressValues[i] \in 0..100
          /\ Len(ProgressValues) <= 101)
    /\ [][(pc = "reading" /\ pc' = "reading" /\ pending' # pending) =>
            LET percent == Progress(gen'.bytes_read, gen'.file_size)
            IN  IF percent > gen.last_progress
                THEN /\ Len(events') = Len(events) + 1
                     /\ events'[Len(events')].type = "progress"
                     /\ events'[Len(events')].progress = percent
                     /\ gen'.last_progress = percent
                ELSE /\ events' = events
                     /\ gen'.last_progress = gen.last_progress]_vars

\* C4 witness: a line has been read without a progress event, after one
\* that had an event.
ProgressOnlyWhenIncreasedWitness ==
    /\ pc = "reading"
    /\ gen.lines_processed = 2
    /\ Len(ProgressValues) = 1
    /\ gen.bytes_read > 0

\* C5: the events of an ingest run hold at most one final event, which is
\* the last event; a run that has reached the end of its input has ended
\* with a done event and a run that has failed with an error event, and a
\* run that has not ended has yielded no final event.
OneFinalEventLast ==
    /\ Cardinality(FinalEvents) <= 1
    /\ FinalEvents \subseteq {Len(events)}
    /\ pc = "done" => FinalEvents # {} /\ events[Len(events)].type = "done"
    /\ pc = "error" => FinalEvents # {} /\ events[Len(events)].type = "error"
    /\ Busy => FinalEvents = {}

\* C5 witness: a run has failed after a progress event.
OneFinalEventLastWitness ==
    /\ pc = "error"
    /\ Len(events) >= 2
    /\ events[1].type = "progress"
    /\ events[Len(events)].type = "error"

\* A step that serves the request `op` other than an ingest stream: every
\* step of an ingest run changes pc or pending, and every request sets resp.
RequestStep(op) == pc' = pc /\ pending' = pending /\ resp'.op = op

\* No successful ingest has produced the store: there is none, or the last
\* ingest run failed.
NoActiveStore == ~parsedExists \/ pc = "error"

NonPositivePagingWellDefined ==
    (resp.op = "query" /\ (resp.args.page <= 0 \/ resp.args.per_page <= 0)) =>
        \/ resp.status = 400
        \/ /\ resp.status = 200
           /\ resp.body.total_pages >= 0
           /\ Len(resp.body.entries) <=
                IF resp.args.per_page > 0 THEN resp.args.per_page ELSE 0

\* The entries of the store, in the order of the lines.
StoredEntries(lines) == [i \in 1..Len(lines) |-> json_loads(lines[i])]

\* The stored entries a filter set matches (all of them for the empty set),
\* in arrival order.
Matching(lines, triage_filter) ==
    SelectSeq(StoredEntries(lines),
              LAMBDA e : triage_filter = {} \/ e.triage_level \in triage_filter)

\* The entries of pages 1..total_pages of a query, concatenated.
AllPages(lines, per_page, triage_filter) ==
    Flatten([page \in 1..get_entries(lines, 1, per_page, triage_filter).body.total_pages |->
                get_entries(lines, page, per_page, triage_filter).body.entries])

\* The page sizes the pagination claims are checked for.
PageSizes == 1..(MaxPieces + 1)

\* C1: for every filter set and per_page >= 1, the pages 1..total_pages of a
\* query, concatenated, are exactly the matching entries of the store in
\* arrival order.
PagesReproduceMatching ==
    parsedExists =>
        \A triage_filter \in Filters, per_page \in PageSizes :
            AllPages(store, per_page, triage_filter) = Matching(store, triage_filter)

\* s with f applied to each of its elements.
Map(f(_), seq) == [i \in 1..Len(seq) |-> f(seq[i])]

\* C1 as amended: for every filter set and per_page >= 1, page p of a query
\* holds exactly the matching entries of zero-based rank (p-1)*per_page up
\* to p*per_page, each with its match_context cut to 200 characters and an
\* ellipsis if it is longer; so the pages 1..total_pages, concatenated, are
\* the matching entries in arrival order with their contexts so cut.
PagesReproduceMatchingTruncated ==
    parsedExists =>
        \A triage_filter \in Filters, per_page \in PageSizes :
            LET cut == Map(Truncated, Matching(store, triage_filter))
                pages == get_entries(store, 1, per_page, triage_filter).body.total_pages
            IN  /\ AllPages(store, per_page, triage_filter) = cut
                /\ \A page \in 1..pages :
                    get_entries(store, page, per_page, triage_filter).body.entries
                    = SubSeq(cut, (page - 1) * per_page + 1,
                             IF page * per_page < Len(cut)
                             THEN page * per_page ELSE Len(cut))

\* C1 witness: the last of two pages has been queried, and holds an entry
\* whose context was cut.
PagesReproduceMatchingWitness ==
    /\ resp.op = "query"
    /\ resp.status = 200
    /\ resp.body.page = 2
    /\ resp.body.total_pages = 2
    /\ Len(resp.body.entries) = 1
    /\ Len(resp.body.entries[1].match_context) = ContextLimit + Len(Ellipsis)

\* The rows of the entries of all pages of a query, as export writes rows.
PageRows(lines, per_page, triage_filter) ==
    {CsvRow(RowColumns(e)) : e \in Range(AllPages(lines, per_page, triage_filter))}

\* The rows export yields after the header.
DataRows(lines, triage_filter) == Range(Tail(export_csv(lines, triage_filter)))

\* C8: for every filter set, the rows of export after the header are the
\* same rows as those of the entries of all pages of the query with that
\* filter set.
ExportRowsEqualPageRows ==
    parsedExists =>
        \A triage_filter \in Filters, per_page \in PageSizes :
            DataRows(store, triage_filter) = PageRows(store, per_page, triage_filter)

\* Whether `row` is the exported row of the entry `e` of a query page: its
\* columns are those of e, with the match_context in full where e holds it
\* cut.
RowOfEntry(row, e, contexts) ==
    \E c \in contexts :
        /\ Truncated([e EXCEPT !.match_context = c]) = e
        /\ row = CsvRow(RowColumns([e EXCEPT !.match_context = c]))

\* C8 as amended: for every filter set, export yields after the header one
\* row for each entry of the pages of the query with that filter set and no
\* other row, the row holding the columns of the entry with the
\* match_context in full where the query cut it.
ExportRowsMatchPageRows ==
    parsedExists =>
        \A triage_filter \in Filters, per_page \in PageSizes :
            LET rows == DataRows(store, triage_filter)
                entries == Range(AllPages(store, per_page, triage_filter))
                contexts == {e.match_context : e \in Range(StoredEntries(store))}
            IN  /\ \A row \in rows : \E e \in entries : RowOfEntry(row, e, contexts)
                /\ \A e \in entries : \E row \in rows : RowOfEntry(row, e, contexts)

\* C8 witness: an export under a filter has yielded a row, of a context
\* longer than the limit, while the store holds an entry the filter leaves
\* out.
ExportRowsMatchPageRowsWitness ==
    /\ resp.op = "export"
    /\ resp.status = 200
    /\ resp.args.triage = {}
    /\ Len(resp.body) = 3
    /\ \E i \in 2..3 : Len(resp.body[i]) > ContextLimit + Len(Ellipsis)

\* C9: when the done event is emitted the source still exists; the pipeline
\* does not delete it.
SourceExistsAtDone ==
    [][(pc # "done" /\ pc' = "done") => uploadExists']_vars

\* C9 as amended: each line of the source is read once, and the source is
\* in place and unchanged until the end of the input is reached; the only
\* step of a run that deletes the source is the pipeline's own step that
\* emits the done event, so that when the done event is emitted the source
\* is gone or, the removal having failed, as it was; a run that fails leaves
\* it in place.
SourceDeletedAtDone ==
    /\ [](pc = "reading" =>
            /\ uploadExists
            /\ gen.lines_processed + Len(pending) = Len(read_lines(uploadBytes)))
    /\ [][(pc # "done" /\ pc' = "done") =>
            /\ uploadExists
            /\ \/ ~uploadExists'
               \/ UNCHANGED <<uploadExists, uploadBytes>>]_vars
    /\ [][(Busy /\ pc' # "done") => UNCHANGED <<uploadExists, uploadBytes>>]_vars

\* C9 witness: a run of several lines has ended with the done event and the
\* source is gone.
SourceDeletedAtDoneWitness ==
    /\ pc = "done"
    /\ gen.lines_processed >= 2
    /\ ~uploadExists
    /\ parsedExists

\* The store lines an ingest writes for the lines `lines` of a source.
RecordsOf(lines) ==
    Map(json_dumps,
        SelectSeq([i \in 1..Len(lines) |-> parse_log_line(lines[i])],
                  LAMBDA e : e # NoEntry))

\* C11: the step with which an ingest starts writing empties the store;
\* while the ingest reads, the store holds exactly the records of the lines
\* read so far of the current source, so none of an earlier session; the
\* store changes in no step other than those of an ingest and a clear; and
\* the entries a query returns are records of the store as it is then.
StoreOfOneGeneration ==
    /\ [](pc = "reading" =>
            store = RecordsOf(SubSeq(read_lines(uploadBytes), 1,
                                     gen.lines_processed)))
    /\ [][(pc = "started" /\ pc' = "reading") => store' = <<>>]_vars
    /\ [][store' # store => (Busy \/ resp'.op = "clear")]_vars
    /\ [][(RequestStep("query") /\ resp'.status = 200) =>
            Range(resp'.body.entries)
            \subseteq Range(Map(Truncated, StoredEntries(store)))]_vars

\* C11 witness: an ingest of a source of one line, uploaded after another
\* piece, has written the record of that line and nothing else, and a query
\* has then returned it.
StoreOfOneGenerationWitness ==
    /\ pc = "done"
    /\ uploaded = 2
    /\ gen.lines_processed = 1
    /\ Len(store) = 1
    /\ resp.op = "query"
    /\ resp.status = 200
    /\ Len(resp.body.entries) = 1
    /\ resp.body.entries[1].triage_level = Green

\* Whether a line holds the informational marker or a status text.
Ignorable(line) ==
    \/ Contains(line, InfoMarker)
    \/ \E p \in skip_patterns : Contains(line, p)

\* Whether a line holds a kind marker and is of the grammar of that marker.
OfRecordGrammar(line) ==
    \/ Contains(line, ShareMarker) /\ SHARE_PATTERN(Strip(line)).ok
    \/ Contains(line, FileMarker) /\ FILE_PATTERN(Strip(line)).ok

\* C12: a line that holds the informational marker or a status text yields
\* no record, whatever else it holds; the step of an ingest that reads such
\* a line counts the line, leaves the store as it is and changes neither the
\* total of records nor a count of a triage level.
StatusLinesIgnored ==
    /\ [](\A i \in 1..Len(pending) :
            Ignorable(pending[i]) => parse_log_line(pending[i]) = NoEntry)
    /\ [][(/\ pc = "reading" /\ pc' = "reading"
           /\ pending # <<>> /\ pending' = Tail(pending)
           /\ Ignorable(Head(pending))) =>
            /\ store' = store
            /\ gen'.total_entries = gen.total_entries
            /\ gen'.triage_counts = gen.triage_counts
            /\ gen'.lines_processed = gen.lines_processed + 1]_vars

\* Whether `line` holds `marker` besides a File marker, and is of a record
\* grammar.
IgnoredRecordLine(line, marker) ==
    /\ Contains(line, marker)
    /\ Contains(line, FileMarker)
    /\ OfRecordGrammar(line)

\* C12 witness: an ingest has read, after a line that gave a record, a line
\* of the File grammar that holds the informational marker, and has read
\* in another run such a line that holds a status text.
StatusLinesIgnoredWitness ==
    /\ pc = "reading"
    /\ gen.lines_processed >= 2
    /\ \/ /\ gen.total_entries = 1
          /\ Len(store) = 1
          /\ IgnoredRecordLine(read_lines(uploadBytes)[gen.lines_processed],
                               InfoMarker)
       \/ /\ gen.total_entries = 0
          /\ store = <<>>
          /\ IgnoredRecordLine(read_lines(uploadBytes)[gen.lines_processed],
                               <<"R", "A", "M", " ", "i", "n", " ", "u", "s", "e">>)

\* The least integer not below a / b, for a >= 0 and b >= 1.
Ceiling(a, b) == CHOOSE n \in 0..a : n * b >= a /\ (n - 1) * b < a

\* The default per_page of the application, line 261.
DefaultPerPage == 100

\* C13: on every store, for every filter set, every page and every
\* per_page >= 1, a query reports as total the number of matching records
\* of the whole store, and as total_pages the ceiling of total / per_page, or
\* 1 when nothing matches; on an empty store query([], 1, 100) answers with
\* no entries, total 0 and total_pages 1.
TotalPagesIsCeiling ==
    [](parsedExists =>
        /\ \A triage_filter \in Filters, page \in 1..(MaxPage + 1),
              per_page \in PageSizes \cup {DefaultPerPage} :
                LET body == get_entries(store, page, per_page, triage_filter).body
                    matching == Len(Matching(store, triage_filter))
                IN  /\ body.total = matching
                    /\ body.total_pages =
                        IF matching > 0 THEN Ceiling(matching, per_page) ELSE 1
        /\ store = <<>> =>
            get_entries(store, 1, DefaultPerPage, {})
            = [status |-> 200,
               body |-> [entries |-> <<>>, page |-> 1,
                         per_page |-> DefaultPerPage, total |-> 0,
                         total_pages |-> 1]])

\* C13 witness: a query under a filter for a page past the last one has
\* answered with no entries and the total of the matching records, fewer
\* than the store holds.
TotalPagesIsCeilingWitness ==
    /\ resp.op = "query"
    /\ resp.status = 200
    /\ resp.args.triage = {Red}
    /\ resp.args.page = 2
    /\ resp.args.per_page = 1
    /\ resp.body.entries = <<>>
    /\ resp.body.total = 1
    /\ resp.body.total_pages = 1
    /\ Len(store) = 2

\* The match_context a query is to return for the stored context ctx.
Displayed(ctx) ==
    IF Len(ctx) > 200
    THEN [k \in 1..203 |-> IF k <= 200 THEN ctx[k] ELSE "."]
    ELSE ctx

\* C14: a query returns every record of the store with its match_context
\* cut to the first 200 characters and "..." if it is longer than 200
\* characters, and as it is otherwise, the other fields being those of the
\* store; export writes the row of the same record with the match_context
\* in full; and neither a query nor an export changes the store.
QueryCutsExportKeeps ==
    /\ [](parsedExists =>
            \A i \in 1..Len(store) :
                LET e == json_loads(store[i])
                IN  /\ get_entries(store, i, 1, {}).body.entries
                       = <<[e EXCEPT !.match_context = Displayed(@)]>>
                    /\ export_csv(store, {})[i + 1] = CsvRow(RowColumns(e))
                    /\ RowColumns(e)[Len(RowColumns(e))] = e.match_context)
    /\ [][(RequestStep("query") \/ RequestStep("export")) =>
            UNCHANGED <<parsedExists, store>>]_vars

\* C14 witness: a query has returned a context of 203 characters, the
\* store holding a record with a context of 202 characters and a record of a
\* shorter context as well.
QueryCutsExportKeepsWitness ==
    /\ resp.op = "query"
    /\ resp.status = 200
    /\ \E k \in 1..Len(resp.body.entries) :
        Len(resp.body.entries[k].match_context) = 203
    /\ \E i \in 1..Len(store) : Len(json_loads(store[i]).match_context) = 202
    /\ \E i \in 1..Len(store) : Len(json_loads(store[i]).match_context) < 200

\* C15: every entry parse_log_line extracts with log_entry_type "Share" has
\* an empty matched_rule_name, matched_regex, file_size and
\* file_last_modified.
ShareEntriesHaveNoFileFields ==
    (/\ fnIn.fn = "line"
     /\ fnOut.set
     /\ fnOut.value # NoEntry
     /\ fnOut.value.log_entry_type = <<"S", "h", "a", "r", "e">>) =>
        /\ fnOut.value.matched_rule_name = <<>>
        /\ fnOut.value.matched_regex = <<>>
        /\ fnOut.value.file_size = <<>>
        /\ fnOut.value.file_last_modified = <<>>

\* C15 witness: a line with the kind token [Share], a body of the File
\* grammar and a trailing File marker has given an entry of kind "Share".
ShareEntriesHaveNoFileFieldsWitness ==
    /\ fnIn.fn = "line"
    /\ fnOut.set
    /\ fnOut.value # NoEntry
    /\ fnOut.value.log_entry_type = <<"S", "h", "a", "r", "e">>
    /\ Contains(fnIn.arg, FileBody)
    /\ Contains(fnIn.arg, FileMarker)
    /\ FILE_PATTERN(Strip(fnIn.arg)).ok

\* C16: the done event of an ingest carries the number of lines processed,
\* which is the number of lines read from the source.
DoneEventCarriesLines ==
    pc = "done" =>
        /\ "lines" \in DOMAIN events[Len(events)]
        /\ events[Len(events)].lines = gen.lines_processed

\* The sum of the values of the function f over the set S of its domain.
RECURSIVE SumOver(_, _)
SumOver(f, S) ==
    IF S = {} THEN 0
    ELSE LET x == CHOOSE y \in S : TRUE
         IN  f[x] + SumOver(f, S \ {x})

\* The number of records of the store `lines` with the triage level `level`.
StoredAtLevel(lines, level) ==
    Cardinality({i \in 1..Len(lines) : json_loads(lines[i]).triage_level = level})

\* The triage levels of the records of the store `lines`.
StoredLevels(lines) == {json_loads(lines[i]).triage_level : i \in 1..Len(lines)}

\* Whether the total and the counts agree with the store `lines` and with
\* the number of lines processed.
CountsAgree(total, counts, processed, lines) ==
    /\ total = Len(lines)
    /\ total = SumOver(counts, DOMAIN counts)
    /\ total <= processed
    /\ DOMAIN counts = StoredLevels(lines)
    /\ \A level \in DOMAIN counts :
        counts[level] > 0 /\ counts[level] = StoredAtLevel(lines, level)

\* Whether the event e reports what the locals g and the store `lines` hold.
Reported(e, g, lines) ==
    IF e.type = "progress"
    THEN /\ e.entries = Len(lines)
         /\ e.lines = g.lines_processed
         /\ e.entries <= e.lines
    ELSE /\ e.total_entries = Len(lines)
         /\ e.triage_counts = g.triage_counts
         /\ Range(e.triage_levels) = StoredLevels(lines)
         /\ Len(e.triage_levels) = Cardinality(StoredLevels(lines))
         /\ \A i, j \in 1..Len(e.triage_levels) :
                i < j => StrLess(e.triage_levels[i], e.triage_levels[j])

\* C17: while an ingest reads, and when it emits a progress event or the done
\* event, the total of records is the number of records the session has
\* appended to the store, is the sum of the counts of the triage levels and
\* is at most the number of lines processed; the count of each level is the
\* number of stored records of that level; the event reports these values,
\* and the triage_levels of the done event are the levels with a positive
\* count, each once.
CountsConsistent ==
    /\ [](pc = "reading" =>
            CountsAgree(gen.total_entries, gen.triage_counts,
                        gen.lines_processed, store))
    /\ [][(/\ Busy
           /\ Len(events') = Len(events) + 1
           /\ events'[Len(events')].type \in {"progress", "done"}) =>
            /\ CountsAgree(gen'.total_entries, gen'.triage_counts,
                           gen'.lines_processed, store')
            /\ Reported(events'[Len(events')], gen', store')]_vars

\* C17 witness: an ingest of more lines than records has emitted its done
\* event with the counts of two triage levels.
CountsConsistentWitness ==
    /\ pc = "done"
    /\ events[Len(events)].type = "done"
    /\ events[Len(events)].total_entries = 2
    /\ events[Len(events)].triage_levels = <<Green, Red>>
    /\ gen.lines_processed > 2
    /\ Len(events) > 2

\* Neither the store nor an uploaded source exists.
NothingLoaded == ~parsedExists /\ ~uploadExists

\* C18: a clear answers with success and leaves neither store nor uploaded
\* source; these stay absent in every step but an upload; while they are
\* absent every query and every export answers with the no-data error, every
\* parse and every debug sample with the no-upload error and no run of an
\* ingest starts, and a further clear answers with success and changes
\* nothing.
ClearedStaysCleared ==
    /\ [][RequestStep("clear") =>
            /\ resp'.status = 200
            /\ NothingLoaded'
            /\ store' = <<>>]_vars
    /\ [](NothingLoaded => ~Busy)
    /\ [][(NothingLoaded /\ ~(resp'.op = "upload" /\ resp'.status = 200)) =>
            /\ NothingLoaded'
            /\ UNCHANGED <<pc, pending, gen, events, store, uploadBytes>>]_vars
    /\ [][(NothingLoaded /\ resp'.op = "query") =>
            /\ resp'.status = 400
            /\ resp'.body = "No data loaded. Please parse a log file first."]_vars
    /\ [][(NothingLoaded /\ resp'.op = "export") =>
            /\ resp'.status = 400
            /\ resp'.body = "No data loaded"]_vars
    /\ [][(NothingLoaded /\ resp'.op = "parse") =>
            /\ resp'.status = 400
            /\ resp'.body = "No file uploaded. Please upload a file first."]_vars
    /\ [][(NothingLoaded /\ resp'.op = "debug") =>
            /\ resp'.status = 400
            /\ resp'.body = "No file uploaded"]_vars

\* C18 witness: after an ingest that completed, and a clear, a debug sample
\* has been answered with the no-upload error.
ClearedStaysClearedWitness ==
    /\ pc = "done"
    /\ NothingLoaded
    /\ resp.op = "debug"
    /\ resp.status = 400

=============================================================================
